---------------------------- MODULE Spec2Model ----------------------------
(***************************************************************************)
(* Model of payload-dumper-rust: the extent-addressed virtual I/O layer    *)
(* (SectionFile, FragmentFile in src/src/extent.rs), the operation         *)
(* executor (dump_operation in src/src/lib.rs) and the driver loop (main   *)
(* in src/src/main.rs).                                                    *)
(*                                                                         *)
(* Streams are byte sequences with a cursor.  A physical offset q (counted *)
(* from 0 as in the source) is element q + 1 of the sequence.              *)
(***************************************************************************)
EXTENDS Integers, Sequences, FiniteSets, TLC

VARIABLES
    inner,        \* backing stream of the stand-alone views: [data, pos]
    ff,           \* FragmentFile fields (index, fragment_pos, size, fragments), or NoFile
    sf,           \* SectionFile fields (offset, length, pos), or NoFile
    call,         \* the last call made on the view: its inputs and what it returned
    transferred,  \* sum of the counts returned by read/write since construction
    seeked,       \* a seek has been issued since construction
    ncalls,       \* number of calls made since construction
    overflow_checks, \* build profile: arithmetic overflow panics (debug) or wraps (release)
    file,         \* main: the payload file: [data, pos]
    img,          \* main: the image file of the current partition: [data, pos], or NoFile
    payload,      \* main: what the run takes from the parsed container: blobs_offset, block_size
    env,          \* whether the payload file / the image file accept seeks
    part,         \* main: partitions whose loop body has completed
    opk,          \* main: operations of the current partition executed so far
    status,       \* main: "running", or how the run ended: "done", "err", "panic"
    last,         \* the last dump_operation call: operation, outcome, image before it
    log           \* the operations started so far: <<partition, index, result>>, in order

viewVars == <<inner, ff, sf, call, transferred, seeked, ncalls, overflow_checks>>

mainVars == <<file, img, payload, env, part, opk, status, last, log>>

vars == <<inner, ff, sf, call, transferred, seeked, ncalls, overflow_checks,
          file, img, payload, env, part, opk, status, last, log>>

---------------------------------------------------------------------------
(* Bounds of the model *)

\* fragments per fragment list
MaxFrags == 2
\* largest physical offset of a fragment
MaxOff == 2
\* largest fragment size
MaxSize == 2
\* largest buffer handed to read / write
MaxBuf == 3
\* calls on one view after its construction
MaxCalls == 3
\* most bytes a short-reading backing stream hands out in one call
MaxChunk == 1
\* largest start_block and num_blocks of an extent, extents per operation
MaxStartBlock == 1
MaxNumBlocks == 1
MaxExtents == 2
\* largest block_size and blobs_offset of a payload
MaxBlockSize == 2
MaxBlobsOffset == 1
\* largest data_offset and data_length of an operation
MaxDataOffset == 1
MaxDataLength == 2
\* most bytes a decoder produces from one blob
MaxDecoded == 2
\* length of the payload file
FileLen == 3
\* partitions dumped in one run, operations executed in one run
MaxPartitions == 2
MaxOperations == 2
\* container: largest file_format_version, largest metadata_signature_size,
\* largest signatures_offset and signatures_size of the manifest, bytes of
\* the blob region
MaxVersion == 3
MaxMetadataSignature == 2
MaxSignaturesOffset == 1
MaxSignaturesSize == 2
BlobsLen == 2

---------------------------------------------------------------------------
(* Helpers *)

Min(a, b) == IF a < b THEN a ELSE b

Max(a, b) == IF a > b THEN a ELSE b

Zeros(n) == [i \in 1..n |-> 0]

NoFile == [none |-> TRUE]

---------------------------------------------------------------------------
(* The backing stream T (std::fs::File, Cursor<Vec<u8>>): Seek, Read, Write *)

\* inner.seek(SeekFrom::Start(p)): any position is accepted, also past the end
stream_seek(s, p) == [s EXCEPT !.pos = p]

\* the most bytes one call of inner.read transfers: Read::read may return
\* fewer bytes than asked for; a stream with a chunk field does so
read_limit(s, n) == IF "chunk" \in DOMAIN s THEN Min(n, s.chunk) ELSE n

\* inner.read(buf) with buf.len() = n: the bytes from the cursor to the end of
\* the data, at most n of them; 0 at or past the end
stream_read(s, n) ==
    LET avail == Max(0, Len(s.data) - s.pos)
        k == Min(read_limit(s, n), avail)
    IN  [inner |-> [s EXCEPT !.pos = @ + k],
         n     |-> k,
         bytes |-> SubSeq(s.data, s.pos + 1, s.pos + k)]

\* inner.write(buf): overwrites at the cursor and extends the data; a gap left
\* by a seek past the end reads as zeros; an empty buffer changes nothing
stream_write(s, buf) ==
    IF buf = <<>> THEN [inner |-> s, n |-> 0]
    ELSE LET padded == IF Len(s.data) < s.pos
                       THEN s.data \o Zeros(s.pos - Len(s.data))
                       ELSE s.data
             newlen == Max(Len(padded), s.pos + Len(buf))
             d == [i \in 1..newlen |->
                      IF i > s.pos /\ i <= s.pos + Len(buf)
                      THEN buf[i - s.pos] ELSE padded[i]]
         IN  [inner |-> [s EXCEPT !.data = d, !.pos = s.pos + Len(buf)], n |-> Len(buf)]

---------------------------------------------------------------------------
(* SectionFile (src/src/extent.rs) *)

\* a section that starts wherever the backing stream's cursor is
SectionFile_new_no_seek(s, offset, length, seek_ok) ==
    IF ~seek_ok THEN [ok |-> FALSE, err |-> "seek", sf |-> NoFile, inner |-> s]
    ELSE [ok    |-> TRUE,
          err   |-> "",
          sf    |-> [offset |-> offset, length |-> length, pos |-> 0],
          inner |-> s]

\* SectionFile::new: seeks the backing stream to offset (seek_ok is the
\* outcome of that seek); the section starts at logical position 0
SectionFile_new(s, offset, length, seek_ok) ==
    IF ~seek_ok THEN [ok |-> FALSE, err |-> "seek", sf |-> NoFile, inner |-> s]
    ELSE [ok    |-> TRUE,
          err   |-> "",
          sf    |-> [offset |-> offset, length |-> length, pos |-> 0],
          inner |-> stream_seek(s, offset)]

\* the logical position a SeekFrom names (positions below 0, which wrap to
\* values near 2^64, are not modelled)
section_target(f, whence, off) ==
    CASE whence = "Start"   -> off
      [] whence = "Current" -> f.pos + off
      [] whence = "End"     -> f.length + off

\* SectionFile::seek: no bounds check; pos is what the backing stream
\* reports, minus offset
SectionFile_seek(f, s, whence, off) ==
    LET p  == section_target(f, whence, off)
        s1 == stream_seek(s, f.offset + p)
    IN  [sf |-> [f EXCEPT !.pos = s1.pos - f.offset], inner |-> s1,
         ret |-> s1.pos - f.offset]

\* min(buf.len() as u64, self.length - self.pos) for a buffer of n bytes.
\* With pos > length the u64 subtraction overflows: a panic when overflow
\* checks are compiled in; otherwise it wraps to 2^64 - (pos - length), which
\* is above every buffer length, and the minimum is n
clamp_to_section(f, n, checks) ==
    IF f.pos <= f.length THEN [panic |-> FALSE, n |-> Min(n, f.length - f.pos)]
    ELSE IF checks THEN [panic |-> TRUE, n |-> 0]
    ELSE [panic |-> FALSE, n |-> n]

\* SectionFile::read(buf) with buf.len() = n
SectionFile_read(f, s, n, checks) ==
    LET c == clamp_to_section(f, n, checks)
        r == stream_read(s, c.n)
    IN  IF c.panic
        THEN [sf |-> f, inner |-> s, ret |-> 0, buf |-> <<>>, phys |-> <<>>, panic |-> TRUE]
        ELSE [sf |-> [f EXCEPT !.pos = @ + r.n], inner |-> r.inner, ret |-> r.n,
              buf |-> r.bytes, phys |-> [i \in 1..r.n |-> s.pos + i - 1],
              panic |-> FALSE]

\* SectionFile::write(buf)
SectionFile_write(f, s, buf, checks) ==
    LET c == clamp_to_section(f, Len(buf), checks)
        r == stream_write(s, SubSeq(buf, 1, c.n))
    IN  IF c.panic
        THEN [sf |-> f, inner |-> s, ret |-> 0, phys |-> <<>>, panic |-> TRUE]
        ELSE [sf |-> [f EXCEPT !.pos = @ + r.n], inner |-> r.inner, ret |-> r.n,
              phys |-> [i \in 1..r.n |-> s.pos + i - 1], panic |-> FALSE]

---------------------------------------------------------------------------
(* FragmentFile (src/src/extent.rs) *)

RECURSIVE SumSizes(_, _)
\* sum of the sizes of the first k fragments: the scan accumulator of new
SumSizes(fragments, k) ==
    IF k = 0 THEN 0 ELSE SumSizes(fragments, k - 1) + fragments[k].size

\* the scan adding the size of a fragment before recording its start_pos
FragmentNodes_inclusive(fragments) ==
    [k \in 1..Len(fragments) |->
        [offset    |-> fragments[k].offset,
         size      |-> fragments[k].size,
         start_pos |-> SumSizes(fragments, k)]]

\* the FragmentNode list built by the scan in FragmentFile::new
FragmentNodes(fragments) ==
    [k \in 1..Len(fragments) |->
        [offset    |-> fragments[k].offset,
         size      |-> fragments[k].size,
         start_pos |-> SumSizes(fragments, k - 1)]]

\* FragmentFile::new: Err on an empty list or when the seek fails (seek_ok
\* is the outcome of inner.seek), else the file at index 0, fragment_pos 0
FragmentFile_new(s, fragments, seek_ok) ==
    IF fragments = <<>> THEN [ok |-> FALSE, err |-> "InvalidInput", ff |-> NoFile, inner |-> s]
    ELSE IF ~seek_ok THEN [ok |-> FALSE, err |-> "seek", ff |-> NoFile, inner |-> s]
    ELSE [ok    |-> TRUE,
          err   |-> "",
          ff    |-> [index        |-> 0,
                     fragment_pos |-> 0,
                     size         |-> SumSizes(fragments, Len(fragments)),
                     fragments    |-> FragmentNodes(fragments)],
          inner |-> stream_seek(s, fragments[1].offset)]

eof(f) == f.index >= Len(f.fragments)

fragment(f) == f.fragments[f.index + 1]

\* the bytes left in the fragment counted from its start
fragment_remaining_whole(f) ==
    IF eof(f) THEN 0 ELSE fragment(f).size

fragment_remaining(f) ==
    IF eof(f) THEN 0 ELSE fragment(f).size - f.fragment_pos

fragment_eof(f) == eof(f) \/ fragment_remaining(f) = 0

inner_pos(f) == fragment(f).offset + f.fragment_pos

pos(f) == IF eof(f) THEN f.size ELSE fragment(f).start_pos + f.fragment_pos

\* inner_seek going to the start of the current fragment
inner_seek_fragment_start(f, s) ==
    [ff |-> f, inner |-> stream_seek(s, fragment(f).offset), ret |-> pos(f)]

\* inner_seek: one physical seek to the current fragment's offset + fragment_pos
inner_seek(f, s) == [ff |-> f, inner |-> stream_seek(s, inner_pos(f)), ret |-> pos(f)]

\* next_fragment keeping the offset reached in the previous fragment
next_fragment_keep_pos(f, s) ==
    LET f1 == [f EXCEPT !.index = @ + 1]
    IN  IF eof(f1) THEN [ff |-> f1, inner |-> s]
        ELSE LET r == inner_seek(f1, s)
             IN  [ff |-> r.ff, inner |-> r.inner]

\* next_fragment without the physical seek to the new fragment
next_fragment_no_seek(f, s) ==
    LET f1 == [f EXCEPT !.index = @ + 1]
    IN  IF eof(f1) THEN [ff |-> f1, inner |-> s]
        ELSE [ff |-> [f1 EXCEPT !.fragment_pos = 0], inner |-> s]

\* next_fragment: advance the index; unless that is end-of-file, restart at
\* offset 0 of the new fragment and reposition the backing stream
next_fragment(f, s) ==
    LET f1 == [f EXCEPT !.index = @ + 1]
    IN  IF eof(f1) THEN [ff |-> f1, inner |-> s]
        ELSE LET r == inner_seek([f1 EXCEPT !.fragment_pos = 0], s)
             IN  [ff |-> r.ff, inner |-> r.inner]


\* the end of a loop iteration of read / write: on fragment_eof, next_fragment
end_of_iteration(f, s) ==
    IF fragment_eof(f) THEN next_fragment(f, s) ELSE [ff |-> f, inner |-> s]

RECURSIVE read_loop(_, _, _, _, _)
\* the loop after an iteration left the file and the stream as nx
read_again(nx, n, buf, phys) == read_loop(nx.ff, nx.inner, n, buf, phys)

\* a read that returns after its first transfer from the backing stream
read_iteration_single(f, s, n, buf, phys, r) ==
    LET nx == end_of_iteration([f EXCEPT !.fragment_pos = @ + r.n], r.inner)
    IN  [ff |-> nx.ff, inner |-> nx.inner, ret |-> Len(buf) + r.n, buf |-> buf \o r.bytes,
         phys |-> phys \o [i \in 1..r.n |-> s.pos + i - 1], hang |-> FALSE]

\* one iteration of the loop of read, r being what inner.read returned.  An
\* iteration that transfers nothing and leaves the fragment unfinished
\* repeats itself for ever: hang
read_iteration(f, s, n, buf, phys, r) ==
    IF r.n = 0 /\ ~fragment_eof(f)
    THEN [ff |-> f, inner |-> r.inner, ret |-> Len(buf), buf |-> buf,
          phys |-> phys, hang |-> TRUE]
    ELSE read_again(end_of_iteration([f EXCEPT !.fragment_pos = @ + r.n], r.inner),
                    n, buf \o r.bytes, phys \o [i \in 1..r.n |-> s.pos + i - 1])

\* the loop of FragmentFile::read; buf is the part of the caller's buffer
\* filled so far, phys the physical offset each of its bytes came from
read_loop(f, s, n, buf, phys) ==
    IF ~(Len(buf) < n /\ ~eof(f))
    THEN [ff |-> f, inner |-> s, ret |-> Len(buf), buf |-> buf, phys |-> phys, hang |-> FALSE]
    ELSE read_iteration(f, s, n, buf, phys,
                        stream_read(s, Min(fragment_remaining(f), n - Len(buf))))

\* FragmentFile::read(buf) with buf.len() = n
FragmentFile_read(f, s, n) == read_loop(f, s, n, <<>>, <<>>)

RECURSIVE write_loop(_, _, _, _, _)
\* the loop after an iteration left the file and the stream as nx
write_again(nx, buf, written, phys) == write_loop(nx.ff, nx.inner, buf, written, phys)

\* one iteration of the loop of write, r being what inner.write returned
write_iteration(f, s, buf, written, phys, r) ==
    IF r.n = 0 /\ ~fragment_eof(f)
    THEN [ff |-> f, inner |-> r.inner, ret |-> written, phys |-> phys, hang |-> TRUE]
    ELSE write_again(end_of_iteration([f EXCEPT !.fragment_pos = @ + r.n], r.inner),
                     buf, written + r.n, phys \o [i \in 1..r.n |-> s.pos + i - 1])

\* the loop of FragmentFile::write; written is the number of bytes of buf
\* written so far, phys the physical offset each of them went to
write_loop(f, s, buf, written, phys) ==
    IF ~(written < Len(buf) /\ ~eof(f))
    THEN [ff |-> f, inner |-> s, ret |-> written, phys |-> phys, hang |-> FALSE]
    ELSE write_iteration(f, s, buf, written, phys,
             stream_write(s, SubSeq(buf, written + 1,
                                    written + Min(fragment_remaining(f), Len(buf) - written))))

\* FragmentFile::write(buf)
FragmentFile_write(f, s, buf) == write_loop(f, s, buf, 0, <<>>)

\* the absolute logical position a SeekFrom names
seek_target(f, whence, off) ==
    CASE whence = "Start"   -> off
      [] whence = "Current" -> pos(f) + off
      [] whence = "End"     -> f.size + off

\* take_while stopping one fragment early when the next one starts at p
take_while_last_early(f, p) ==
    CHOOSE m \in 1..Len(f.fragments) :
        /\ f.fragments[m].start_pos <= p
        /\ m < Len(f.fragments) => f.fragments[m + 1].start_pos >= p
        /\ \A k \in 1..(m - 1) : f.fragments[k + 1].start_pos < p

\* take_while(start_pos <= p).last(): the number of leading fragments whose
\* start_pos is <= p; the last of them is the fragment selected
take_while_last(f, p) ==
    CHOOSE m \in 0..Len(f.fragments) :
        /\ \A k \in 1..m : f.fragments[k].start_pos <= p
        /\ m < Len(f.fragments) => f.fragments[m + 1].start_pos > p

\* seek without the shortcut for SeekFrom::Current(0)
FragmentFile_seek_always(f, s, whence, off) ==
    LET p == seek_target(f, whence, off)
        m == take_while_last(f, p)
        f1 == [f EXCEPT !.index = m - 1,
                        !.fragment_pos = p - f.fragments[m].start_pos]
    IN  inner_seek(f1, s)

\* FragmentFile::seek for a target in 0..size (a target below 0 or above
\* size wraps / leaves the fragment's range and is not modelled)
FragmentFile_seek(f, s, whence, off) ==
    IF whence = "Current" /\ off = 0 THEN [ff |-> f, inner |-> s, ret |-> pos(f)]
    ELSE LET p == seek_target(f, whence, off)
             m == take_while_last(f, p)
             f1 == [f EXCEPT !.index = m - 1,
                             !.fragment_pos = p - f.fragments[m].start_pos]
         IN  inner_seek(f1, s)

---------------------------------------------------------------------------
(* dump_operation (src/src/lib.rs) *)

\* an absent optional field of an InstallOperation (Option::None)
None == 0 - 1

\* from_extent taking start_block for a byte offset
from_extent_unscaled(extent, block_size) ==
    [offset |-> extent.start_block,
     size   |-> block_size * extent.num_blocks]

\* Fragment::from_extent
from_extent(extent, block_size) ==
    [offset |-> block_size * extent.start_block,
     size   |-> block_size * extent.num_blocks]

\* FragmentFile::new_from_extents
new_from_extents(s, extents, block_size, seek_ok) ==
    FragmentFile_new(s, [k \in 1..Len(extents) |-> from_extent(extents[k], block_size)],
                     seek_ok)

RECURSIVE write_all(_, _, _)
\* r is what write returned: 0 is the error WriteZero, else the rest follows
write_all_rest(buf, r) ==
    IF r.ret = 0 THEN [ok |-> FALSE, ff |-> r.ff, inner |-> r.inner]
    ELSE write_all(r.ff, r.inner, SubSeq(buf, r.ret + 1, Len(buf)))

\* Write::write_all on the destination FragmentFile: write until the buffer
\* is empty
write_all(f, s, buf) ==
    IF buf = <<>> THEN [ok |-> TRUE, ff |-> f, inner |-> s]
    ELSE write_all_rest(buf, FragmentFile_write(f, s, buf))

\* the buffer size of std::io::copy and of BufReader
DEFAULT_BUF_SIZE == 8192

RECURSIVE copy_section(_, _, _, _, _)
\* w is what write_all made of the buffer read as rd
copy_section_written(rd, w, copied) ==
    IF ~w.ok
    THEN [ok |-> FALSE, copied |-> copied, src |-> rd.inner, ff |-> w.ff, dst |-> w.inner]
    ELSE copy_section(rd.sf, rd.inner, w.ff, w.inner, copied + rd.ret)

\* rd is what the section's read returned: 0 bytes end the copy
copy_section_read(f, dst, copied, rd) ==
    IF rd.ret = 0
    THEN [ok |-> TRUE, copied |-> copied, src |-> rd.inner, ff |-> f, dst |-> dst]
    ELSE copy_section_written(rd, write_all(f, dst, rd.buf), copied)

\* std::io::copy(&mut data, &mut dst): read a buffer from the section until
\* it returns 0, write_all each buffer; copied counts the bytes moved
copy_section(sec, src, f, dst, copied) ==
    copy_section_read(f, dst, copied, SectionFile_read(sec, src, DEFAULT_BUF_SIZE, FALSE))

\* a Zero operation that only positions the output
copy_zeros_skipped(limit, f, dst) == [ok |-> TRUE, ff |-> f, dst |-> dst]

RECURSIVE copy_zeros(_, _, _)
\* w is what write_all made of a buffer of n zeros
copy_zeros_written(limit, n, w) ==
    IF ~w.ok THEN [ok |-> FALSE, ff |-> w.ff, dst |-> w.inner]
    ELSE copy_zeros(limit - n, w.ff, w.inner)

\* std::io::copy(&mut repeat(0).take(limit), &mut dst)
copy_zeros(limit, f, dst) ==
    IF limit = 0 THEN [ok |-> TRUE, ff |-> f, dst |-> dst]
    ELSE copy_zeros_written(limit, Min(DEFAULT_BUF_SIZE, limit),
                            write_all(f, dst, Zeros(Min(DEFAULT_BUF_SIZE, limit))))

RECURSIVE read_to_end(_, _)
\* rd is what the section's read returned
read_to_end_read(rd) ==
    IF rd.ret = 0 THEN rd.inner ELSE read_to_end(rd.sf, rd.inner)

\* the decoder's BufReader draining the section
read_to_end(sec, src) ==
    read_to_end_read(SectionFile_read(sec, src, DEFAULT_BUF_SIZE, FALSE))

\* w is what write_all made of the decoded bytes
decode_stream_written(src, corrupt, w) ==
    [ok |-> w.ok /\ ~corrupt, src |-> src, ff |-> w.ff, dst |-> w.inner]

\* libribzip2::stream::decode_stream / lzma_rs::xz_decompress, external
\* decoders: they read the section and write_all what they decode (decoded,
\* any byte string) to the destination; they fail when the destination
\* refuses a write or when the stream is corrupt (reported after the bytes
\* decoded so far were written)
decode_stream(sec, src, f, dst, decoded, corrupt) ==
    decode_stream_written(read_to_end(sec, src), corrupt, write_all(f, dst, decoded))

Ret(result, err, src, dst) == [result |-> result, err |-> err, src |-> src, dst |-> dst]

Unsupported == {"Move", "SourceCopy", "Bsdiff", "SourceBsdiff", "BrotliBsdiff", "Puffdiff"}

\* data resolved with the protobuf defaults (0) for absent fields
resolve_data_defaulted(src, src_blobs_offset, operation, seek_ok) ==
    SectionFile_new(src, src_blobs_offset + Max(0, operation.data_offset),
                    Max(0, operation.data_length), seek_ok)

\* lines 103-109: data is Ok(section) or Err(string): "no data" when
\* data_offset or data_length is absent, else what SectionFile::new returns
resolve_data(src, src_blobs_offset, operation, seek_ok) ==
    IF operation.data_offset = None \/ operation.data_length = None
    THEN [ok |-> FALSE, err |-> "no data", sf |-> NoFile, inner |-> src]
    ELSE SectionFile_new(src, src_blobs_offset + operation.data_offset,
                         operation.data_length, seek_ok)

\* lines 115-119: dst is Err("no dst extents") or Ok(file)
resolve_dst(dst, operation, block_size, seek_ok) ==
    IF operation.dst_extents = <<>>
    THEN [ok |-> FALSE, err |-> "no dst extents", ff |-> NoFile, inner |-> dst]
    ELSE new_from_extents(dst, operation.dst_extents, block_size, seek_ok)

\* lines 127-129: the copy's error is returned; then the two assert_eq!
replace_copied(operation, fr, cp) ==
    IF ~cp.ok THEN Ret("Err", "WriteZero", cp.src, cp.dst)
    ELSE IF cp.copied # operation.data_length THEN Ret("Panic", "assert_eq", cp.src, cp.dst)
    ELSE IF cp.copied # fr.ff.size THEN Ret("Panic", "assert_eq", cp.src, cp.dst)
    ELSE Ret("Ok", "", cp.src, cp.dst)

\* the decoder's result returned without the check of the final position
replace_decoded_unchecked(err, dc) ==
    IF ~dc.ok THEN Ret("Err", err, dc.src, dc.dst)
    ELSE Ret("Ok", "", dc.src, dc.dst)

\* lines 136-141 and 148-153: the decoder's error is mapped to a string and
\* returned; then assert_eq!(dst.seek(SeekFrom::Current(0))?, dst.size())
replace_decoded(err, dc) ==
    IF ~dc.ok THEN Ret("Err", err, dc.src, dc.dst)
    ELSE IF pos(dc.ff) # dc.ff.size THEN Ret("Panic", "assert_eq", dc.src, dc.dst)
    ELSE Ret("Ok", "", dc.src, dc.dst)

\* lines 157-158: the copy's error is returned
zero_copied(src, zr) ==
    IF ~zr.ok THEN Ret("Err", "WriteZero", src, zr.dst)
    ELSE Ret("Ok", "", src, zr.dst)

\* lines 121-187: the match on the operation type, given the resolved data
\* and dst.  A failed construction of dst (line 118) has returned already
match_type(dst, operation, decoded, corrupt, data, fr) ==
    IF fr.err = "seek" THEN Ret("Err", "seek", data.inner, dst)
    ELSE CASE operation.type = "Replace" ->
                IF ~fr.ok THEN Ret("Err", fr.err, data.inner, fr.inner)
                ELSE IF ~data.ok THEN Ret("Err", data.err, data.inner, fr.inner)
                ELSE replace_copied(operation, fr,
                         copy_section(data.sf, data.inner, fr.ff, fr.inner, 0))
           [] operation.type = "ReplaceBz" ->
                IF ~fr.ok THEN Ret("Err", fr.err, data.inner, fr.inner)
                ELSE IF ~data.ok THEN Ret("Err", data.err, data.inner, fr.inner)
                ELSE replace_decoded("bzip2 error",
                         decode_stream(data.sf, data.inner, fr.ff, fr.inner, decoded, corrupt))
           [] operation.type = "ReplaceXz" ->
                IF ~data.ok THEN Ret("Err", data.err, data.inner, fr.inner)
                ELSE IF ~fr.ok THEN Ret("Err", fr.err, data.inner, fr.inner)
                ELSE replace_decoded("xz error",
                         decode_stream(data.sf, data.inner, fr.ff, fr.inner, decoded, corrupt))
           [] operation.type = "Zero" ->
                IF ~fr.ok THEN Ret("Err", fr.err, data.inner, fr.inner)
                ELSE zero_copied(data.inner, copy_zeros(fr.ff.size, fr.ff, fr.inner))
           [] operation.type = "Discard" ->
                Ret("Ok", "", data.inner, fr.inner)
           [] operation.type \in Unsupported ->
                Ret("Panic", "not yet implemented", data.inner, fr.inner)

\* dump_operation(src, src_blobs_offset, dst, operation, block_size); e tells
\* whether src and dst accept seeks, decoded / corrupt what the decoder makes
\* of the data blob.  result is "Ok", "Err" (a returned error) or "Panic"
dump_operation(src, src_blobs_offset, dst, operation, block_size, e, decoded, corrupt) ==
    match_type(dst, operation, decoded, corrupt,
               resolve_data(src, src_blobs_offset, operation, e.src_seek_ok),
               resolve_dst(dst, operation, block_size, e.dst_seek_ok))

---------------------------------------------------------------------------
(* Stand-alone FragmentFile over a backing stream: construction, then any  *)
(* sequence of read, write and seek calls                                  *)

\* a fragment list handed to FragmentFile::new
Fragments == [offset : 0..MaxOff, size : 0..MaxSize]

FragmentLists == UNION {[1..n -> Fragments] : n \in 0..MaxFrags}

\* contents of the backing medium before construction: byte 10 + q + 1 at
\* physical offset q; a medium that covers every fragment, or a shorter one
BackingLens == {MaxOff, MaxOff + MaxSize}

Backing(len) == [data |-> [i \in 1..len |-> 10 + i], pos |-> 0]

\* the same medium behind a reader that hands out at most chunk bytes a call
ShortReads(s, chunk) == [data |-> s.data, pos |-> s.pos, chunk |-> chunk]

\* the backing streams a FragmentFile is constructed over, the cursor anywhere
Backings ==
    LET whole == {stream_seek(Backing(len), p) : len \in BackingLens, p \in 0..MaxOff}
    IN  whole \cup {ShortReads(s, chunk) : s \in whole, chunk \in 1..MaxChunk}

\* the buffers handed to write: byte 20 + i + 1 for logical byte i
WriteBufs == {[i \in 1..n |-> 20 + i] : n \in 0..MaxBuf}

NoCall == [op |-> "none", n |-> 0, buf |-> <<>>, ret |-> 0, ok |-> TRUE,
           hang |-> FALSE, pre_pos |-> 0, target |-> 0, noop |-> FALSE,
           after_seek |-> FALSE, panic |-> FALSE, phys |-> <<>>, pre |-> <<>>,
           fragments |-> <<>>, seek_ok |-> TRUE, err |-> ""]

NoOperation == [type |-> "none", data_offset |-> 0, data_length |-> 0, dst_extents |-> <<>>]

NoLast == [operation |-> NoOperation, decoded |-> <<>>, corrupt |-> FALSE,
           result |-> "none", err |-> "", before |-> <<>>,
           src_pos |-> 0, dst_pos |-> 0]

\* no run of main: the stand-alone views are exercised on their own
MainIdle ==
    /\ file = [data |-> <<>>, pos |-> 0]
    /\ img = NoFile
    /\ payload = [blobs_offset |-> 0, block_size |-> 0]
    /\ env = [src_seek_ok |-> TRUE, dst_seek_ok |-> TRUE]
    /\ part = 0
    /\ opk = 0
    /\ status = "idle"
    /\ last = NoLast
    /\ log = <<>>

InitFrag ==
    /\ inner \in Backings
    /\ ff = NoFile
    /\ sf = NoFile
    /\ call = NoCall
    /\ transferred = 0
    /\ seeked = FALSE
    /\ ncalls = 0
    /\ overflow_checks = FALSE
    /\ MainIdle

FragNew ==
    /\ ff = NoFile
    /\ call.op = "none"
    /\ \E fragments \in FragmentLists, seek_ok \in BOOLEAN :
          LET r == FragmentFile_new(inner, fragments, seek_ok)
          IN  /\ ff' = r.ff
              /\ inner' = r.inner
              /\ call' = [NoCall EXCEPT !.op = "new", !.ok = r.ok, !.err = r.err,
                              !.fragments = fragments, !.seek_ok = seek_ok,
                              !.pre_pos = inner.pos, !.pre = inner.data]
    /\ UNCHANGED <<sf, transferred, seeked, ncalls, overflow_checks, file, img, payload, env,
                   part, opk, status, last, log>>

FragReady == ff # NoFile /\ ~call.hang /\ ncalls < MaxCalls

FragRead ==
    /\ FragReady
    /\ \E n \in 0..MaxBuf :
          \E r \in {FragmentFile_read(ff, inner, n)} :
              /\ ff' = r.ff
              /\ inner' = r.inner
              /\ call' = [NoCall EXCEPT !.op = "read", !.n = n, !.buf = r.buf,
                              !.ret = r.ret, !.hang = r.hang, !.pre_pos = pos(ff),
                              !.after_seek = (call.op = "seek"),
                              !.phys = r.phys, !.pre = inner.data]
              /\ transferred' = transferred + r.ret
    /\ ncalls' = ncalls + 1
    /\ UNCHANGED <<sf, seeked, overflow_checks, file, img, payload, env,
                   part, opk, status, last, log>>

FragWrite ==
    /\ FragReady
    /\ \E buf \in WriteBufs :
          \E r \in {FragmentFile_write(ff, inner, buf)} :
              /\ ff' = r.ff
              /\ inner' = r.inner
              /\ call' = [NoCall EXCEPT !.op = "write", !.n = Len(buf), !.buf = buf,
                              !.ret = r.ret, !.hang = r.hang, !.pre_pos = pos(ff),
                              !.after_seek = (call.op = "seek"),
                              !.phys = r.phys, !.pre = inner.data]
              /\ transferred' = transferred + r.ret
    /\ ncalls' = ncalls + 1
    /\ UNCHANGED <<sf, seeked, overflow_checks, file, img, payload, env,
                   part, opk, status, last, log>>

FragSeek ==
    /\ FragReady
    /\ \E whence \in {"Start", "Current", "End"}, p \in 0..ff.size :
          LET off == CASE whence = "Start"   -> p
                       [] whence = "Current" -> p - pos(ff)
                       [] whence = "End"     -> p - ff.size
              r == FragmentFile_seek(ff, inner, whence, off)
          IN  /\ ff' = r.ff
              /\ inner' = r.inner
              /\ call' = [NoCall EXCEPT !.op = "seek", !.ret = r.ret, !.target = p,
                              !.noop = (whence = "Current" /\ off = 0),
                              !.pre_pos = pos(ff), !.pre = inner.data]
    /\ seeked' = TRUE
    /\ ncalls' = ncalls + 1
    /\ UNCHANGED <<sf, transferred, overflow_checks, file, img, payload, env,
                   part, opk, status, last, log>>

NextFrag == FragNew \/ FragRead \/ FragWrite \/ FragSeek

SpecFrag == InitFrag /\ [][NextFrag]_vars

---------------------------------------------------------------------------
(* Stand-alone SectionFile over a backing stream *)

InitSect ==
    /\ inner \in {Backing(len) : len \in BackingLens}
    /\ ff = NoFile
    /\ sf = NoFile
    /\ call = NoCall
    /\ transferred = 0
    /\ seeked = FALSE
    /\ ncalls = 0
    /\ overflow_checks \in BOOLEAN
    /\ MainIdle

SectNew ==
    /\ sf = NoFile
    /\ call.op = "none"
    /\ \E offset \in 0..MaxOff, length \in 0..MaxSize, seek_ok \in BOOLEAN :
          LET r == SectionFile_new(inner, offset, length, seek_ok)
          IN  /\ sf' = r.sf
              /\ inner' = r.inner
              /\ call' = [NoCall EXCEPT !.op = "new", !.ok = r.ok, !.pre = inner.data]
    /\ UNCHANGED <<ff, transferred, seeked, ncalls, overflow_checks, file, img, payload, env,
                   part, opk, status, last, log>>

SectReady == sf # NoFile /\ ~call.panic /\ ncalls < MaxCalls

\* seeks to the logical positions 0..length and to those past the window
SectSeek ==
    /\ SectReady
    /\ \E whence \in {"Start", "Current", "End"}, p \in 0..(sf.length + MaxSize) :
          LET off == CASE whence = "Start"   -> p
                       [] whence = "Current" -> p - sf.pos
                       [] whence = "End"     -> p - sf.length
              r == SectionFile_seek(sf, inner, whence, off)
          IN  /\ sf' = r.sf
              /\ inner' = r.inner
              /\ call' = [NoCall EXCEPT !.op = "seek", !.ret = r.ret, !.target = p,
                              !.pre_pos = sf.pos, !.pre = inner.data]
    /\ seeked' = TRUE
    /\ ncalls' = ncalls + 1
    /\ UNCHANGED <<ff, transferred, overflow_checks, file, img, payload, env,
                   part, opk, status, last, log>>

SectRead ==
    /\ SectReady
    /\ \E n \in 0..MaxBuf :
          \E r \in {SectionFile_read(sf, inner, n, overflow_checks)} :
              /\ sf' = r.sf
              /\ inner' = r.inner
              /\ call' = [NoCall EXCEPT !.op = "read", !.n = n, !.buf = r.buf,
                              !.ret = r.ret, !.panic = r.panic, !.pre_pos = sf.pos,
                              !.phys = r.phys, !.pre = inner.data]
              /\ transferred' = transferred + r.ret
    /\ ncalls' = ncalls + 1
    /\ UNCHANGED <<ff, seeked, overflow_checks, file, img, payload, env,
                   part, opk, status, last, log>>

SectWrite ==
    /\ SectReady
    /\ \E buf \in WriteBufs :
          \E r \in {SectionFile_write(sf, inner, buf, overflow_checks)} :
              /\ sf' = r.sf
              /\ inner' = r.inner
              /\ call' = [NoCall EXCEPT !.op = "write", !.n = Len(buf), !.buf = buf,
                              !.ret = r.ret, !.panic = r.panic, !.pre_pos = sf.pos,
                              !.phys = r.phys, !.pre = inner.data]
              /\ transferred' = transferred + r.ret
    /\ ncalls' = ncalls + 1
    /\ UNCHANGED <<ff, seeked, overflow_checks, file, img, payload, env,
                   part, opk, status, last, log>>

NextSect == SectNew \/ SectSeek \/ SectRead \/ SectWrite

SpecSect == InitSect /\ [][NextSect]_vars


---------------------------------------------------------------------------
(* main (src/src/main.rs): the loop over the partitions and their operations *)

Extents == [start_block : 0..MaxStartBlock, num_blocks : 0..MaxNumBlocks]

ExtentLists == UNION {[1..n -> Extents] : n \in 0..MaxExtents}

Supported == {"Replace", "ReplaceBz", "ReplaceXz", "Zero", "Discard"}

\* the install operations a manifest may hold; data_offset and data_length
\* are optional fields.  The unsupported kinds come with fewer variants
Operations ==
    [type        : Supported,
     data_offset : {None} \cup 0..MaxDataOffset,
     data_length : {None} \cup 0..MaxDataLength,
     dst_extents : ExtentLists]
    \cup
    [type        : Unsupported,
     data_offset : {None, 0},
     data_length : {None, MaxDataLength},
     dst_extents : {<<>>, <<[start_block |-> 0, num_blocks |-> MaxNumBlocks]>>}]

\* what a decoder may make of a blob: byte 30 + i + 1 as decoded byte i
DecodedStreams == {[i \in 1..m |-> 30 + i] : m \in 0..MaxDecoded}

\* the payload file: byte q + 1 at physical offset q
FileData == [i \in 1..FileLen |-> i]

\* the decoder runs only for ReplaceBz / ReplaceXz with both views resolved
DecoderRuns(operation) ==
    /\ operation.type \in {"ReplaceBz", "ReplaceXz"}
    /\ operation.data_offset # None /\ operation.data_length # None
    /\ operation.dst_extents # <<>>
    /\ env.src_seek_ok /\ env.dst_seek_ok

\* after the container was parsed (file.read_be) and the output directory made
Init ==
    /\ inner = [data |-> <<>>, pos |-> 0]
    /\ ff = NoFile
    /\ sf = NoFile
    /\ call = NoCall
    /\ transferred = 0
    /\ seeked = FALSE
    /\ ncalls = 0
    /\ overflow_checks = FALSE
    /\ payload \in [blobs_offset : 1..MaxBlobsOffset, block_size : 1..MaxBlockSize]
    /\ file = [data |-> FileData, pos |-> payload.blobs_offset]
    /\ img = NoFile
    /\ env \in [src_seek_ok : BOOLEAN, dst_seek_ok : BOOLEAN]
    /\ part = 0
    /\ opk = 0
    /\ status = "running"
    /\ last = NoLast
    /\ log = <<>>

\* for partition in partitions: File::create(img)?, a new empty image, or
\* the error returned by main
CreateImage ==
    /\ status = "running"
    /\ img = NoFile
    /\ part < MaxPartitions
    /\ \E created \in BOOLEAN :
          /\ img' = IF created THEN [data |-> <<>>, pos |-> 0] ELSE NoFile
          /\ status' = IF created THEN "running" ELSE "err"
    /\ UNCHANGED <<viewVars, file, payload, env, part, opk, last, log>>

\* the run swallowing what dump_operation returned
run_status_swallow(result) == "running"

\* dump_operation(...)? in main: Ok(()) lets the run go on, Err(e) is returned
\* by main, a panic aborts the process
run_status(result) ==
    CASE result = "Ok"    -> "running"
      [] result = "Err"   -> "err"
      [] result = "Panic" -> "panic"

\* for operation in &partition.operations: dump_operation(...)
DumpOperation ==
    /\ status = "running"
    /\ img # NoFile
    /\ last = NoLast
    /\ Len(log) < MaxOperations
    /\ \E operation \in Operations, decoded \in DecodedStreams, corrupt \in BOOLEAN :
          /\ ~DecoderRuns(operation) => (decoded = <<>> /\ ~corrupt)
          /\ \E r \in {dump_operation(file, payload.blobs_offset, img, operation,
                                     payload.block_size, env, decoded, corrupt)} :
                 /\ file' = r.src
                 /\ img' = r.dst
                 /\ last' = [operation |-> operation, decoded |-> decoded,
                             corrupt |-> corrupt, result |-> r.result,
                             err |-> r.err, before |-> img.data,
                             src_pos |-> file.pos, dst_pos |-> img.pos]
                 /\ log' = Append(log, <<part + 1, opk + 1, r.result>>)
                 /\ status' = run_status(r.result)
    /\ opk' = opk + 1
    /\ UNCHANGED <<viewVars, payload, env, part>>

\* dump_operation(...)? on Ok(()): the result is dropped and the loop goes on
NextOperation ==
    /\ status = "running"
    /\ last # NoLast
    /\ last' = NoLast
    /\ UNCHANGED <<viewVars, file, img, payload, env, part, opk, status, log>>

\* the operations of the partition are exhausted: bar.finish(), img dropped
EndPartition ==
    /\ status = "running"
    /\ img # NoFile
    /\ last = NoLast
    /\ img' = NoFile
    /\ part' = part + 1
    /\ opk' = 0
    /\ UNCHANGED <<viewVars, file, payload, env, status, last, log>>

\* the partitions are exhausted: Ok(())
Finish ==
    /\ status = "running"
    /\ img = NoFile
    /\ status' = "done"
    /\ UNCHANGED <<viewVars, file, img, payload, env, part, opk, last, log>>

Next == CreateImage \/ DumpOperation \/ NextOperation \/ EndPartition \/ Finish

Spec == Init /\ [][Next]_vars

---------------------------------------------------------------------------
(* Container parsing (src/src/lib.rs): file.read_be::<DeltaUpdateFile>()   *)
(* in main, field by field in declaration order                            *)

\* #[br(magic = b"CrAU")]
MAGIC == <<67, 114, 65, 85>>

\* protobuf keys of DeltaArchiveManifest.signatures_offset (field 4) and
\* signatures_size (field 5), both varint
KEY_SIGNATURES_OFFSET == 32
KEY_SIGNATURES_SIZE == 40

\* read of exactly n bytes (a fixed-width integer, or count = n bytes): an
\* error when the stream ends before
read_exact(s, n) ==
    IF Len(s.data) - s.pos >= n
    THEN [ok |-> TRUE, inner |-> [s EXCEPT !.pos = @ + n],
          bytes |-> SubSeq(s.data, s.pos + 1, s.pos + n)]
    ELSE [ok |-> FALSE, inner |-> s, bytes |-> <<>>]

RECURSIVE from_be_bytes(_)
\* #[br(big)]: an unsigned integer from its bytes, most significant first
from_be_bytes(bytes) ==
    IF bytes = <<>> THEN 0
    ELSE 256 * from_be_bytes(SubSeq(bytes, 1, Len(bytes) - 1)) + bytes[Len(bytes)]

RECURSIVE decode(_, _)
\* DeltaArchiveManifest::decode (generated by prost from
\* update_metadata.proto): a sequence of key / value pairs, a later value of
\* a field replacing an earlier one.  The manifests of the model hold only
\* signatures_offset and signatures_size, with values below 128 (one varint
\* byte); any other byte string is a decode error
decode(bytes, m) ==
    IF bytes = <<>> THEN [m EXCEPT !.ok = TRUE]
    ELSE IF Len(bytes) < 2 \/ bytes[2] >= 128 THEN [m EXCEPT !.ok = FALSE]
    ELSE IF bytes[1] = KEY_SIGNATURES_OFFSET
    THEN decode(SubSeq(bytes, 3, Len(bytes)), [m EXCEPT !.signatures_offset = bytes[2]])
    ELSE IF bytes[1] = KEY_SIGNATURES_SIZE
    THEN decode(SubSeq(bytes, 3, Len(bytes)), [m EXCEPT !.signatures_size = bytes[2]])
    ELSE [m EXCEPT !.ok = FALSE]

\* DeltaArchiveManifest::default()
NoManifest == [ok |-> FALSE, signatures_offset |-> None, signatures_size |-> None]

\* the DeltaUpdateFile under construction: fields not read yet, and fields
\* whose #[br(if(..))] condition is false, hold their Default value
NoPayload ==
    [file_format_version |-> 0,
     manifest_size |-> 0,
     metadata_signature_size |-> 0,
     manifest |-> NoManifest,
     metadata_signature_message |-> <<>>,
     blobs_offset |-> 0,
     payload_signatures_message_data |-> <<>>]

\* the size field taken to be present in every version
metadata_signature_size_always(file_format_version) == TRUE

\* #[br(if(file_format_version >= 2))]
metadata_signature_size_present(file_format_version) == file_format_version >= 2

\* the payload signature looked for when either field is present
payload_signatures_present_either(manifest) ==
    manifest.signatures_offset # None \/ manifest.signatures_size # None

\* #[br(if(manifest.signatures_offset.is_some() && manifest.signatures_size.is_some()))]
payload_signatures_present(manifest) ==
    manifest.signatures_offset # None /\ manifest.signatures_size # None

RECURSIVE to_be_bytes(_, _)
\* the w bytes of n, most significant first, as the payload generator
\* writes them
to_be_bytes(n, w) ==
    IF w = 0 THEN <<>> ELSE to_be_bytes(n \div 256, w - 1) \o <<n % 256>>

\* the serialized manifest
encode(m) ==
    (IF m.signatures_offset # None THEN <<KEY_SIGNATURES_OFFSET, m.signatures_offset>> ELSE <<>>)
    \o (IF m.signatures_size # None THEN <<KEY_SIGNATURES_SIZE, m.signatures_size>> ELSE <<>>)

\* the manifests of the model
Manifests ==
    [ok : {TRUE},
     signatures_offset : {None} \cup 0..MaxSignaturesOffset,
     signatures_size   : {None} \cup 0..MaxSignaturesSize]

\* metadata signatures: byte 50 + i + 1 as byte i
MetadataSignatures == {[i \in 1..n |-> 50 + i] : n \in 0..MaxMetadataSignature}

\* the blob region: byte 60 + i + 1 as byte i
Blobs == [i \in 1..BlobsLen |-> 60 + i]

\* a payload file as in the layout of lib.rs:22-51; version 1 has no
\* metadata_signature_size field and no metadata signature
Container(magic, version, m, signature) ==
    magic \o to_be_bytes(version, 8) \o to_be_bytes(Len(encode(m)), 8)
    \o (IF version >= 2 THEN to_be_bytes(Len(signature), 4) ELSE <<>>)
    \o encode(m) \o signature \o Blobs

\* the metadata signatures a payload of this version can carry
SignaturesOf(version) == IF version >= 2 THEN MetadataSignatures ELSE {<<>>}

\* a stream without its last cut bytes
CutShort(bytes, cut) == SubSeq(bytes, 1, Len(bytes) - cut)

\* the files handed to the parser: well-formed payloads, payloads with a
\* wrong magic, and payloads cut short
Containers ==
    UNION {{CutShort(Container(magic, version, m, signature), cut) :
               magic \in {MAGIC, <<67, 114, 65, 86>>},
               m \in Manifests,
               signature \in SignaturesOf(version),
               cut \in {0, BlobsLen + 1}} :
           version \in 1..MaxVersion}

\* no view and no partition loop while the container is parsed
ParseIdle ==
    /\ inner = [data |-> <<>>, pos |-> 0]
    /\ ff = NoFile
    /\ sf = NoFile
    /\ call = NoCall
    /\ transferred = 0
    /\ seeked = FALSE
    /\ ncalls = 0
    /\ overflow_checks = FALSE
    /\ img = NoFile
    /\ env = [src_seek_ok |-> TRUE, dst_seek_ok |-> TRUE]
    /\ part = 0
    /\ opk = 0
    /\ last = NoLast
    /\ log = <<>>

\* File::open(&args.payload): the file at position 0; status is the field
\* read_be reads next
InitParse ==
    /\ file \in {[data |-> c, pos |-> 0] : c \in Containers}
    /\ payload = NoPayload
    /\ status = "magic"
    /\ ParseIdle

\* a field could not be read: read_be returns the error; the derived parser
\* seeks back to where it started, which may fail in turn
ParseFailed(s) ==
    /\ status' = "err"
    /\ \E rewound \in BOOLEAN : file' = IF rewound THEN stream_seek(s, 0) ELSE s
    /\ UNCHANGED payload

ParseMagic ==
    /\ status = "magic"
    /\ \E r \in {read_exact(file, 4)} :
          IF r.ok /\ r.bytes = MAGIC
          THEN file' = r.inner /\ status' = "file_format_version" /\ UNCHANGED payload
          ELSE ParseFailed(r.inner)
    /\ UNCHANGED <<viewVars, img, env, part, opk, last, log>>

ParseFileFormatVersion ==
    /\ status = "file_format_version"
    /\ \E r \in {read_exact(file, 8)} :
          IF r.ok
          THEN /\ file' = r.inner
               /\ payload' = [payload EXCEPT !.file_format_version = from_be_bytes(r.bytes)]
               /\ status' = "manifest_size"
          ELSE ParseFailed(r.inner)
    /\ UNCHANGED <<viewVars, img, env, part, opk, last, log>>

ParseManifestSize ==
    /\ status = "manifest_size"
    /\ \E r \in {read_exact(file, 8)} :
          IF r.ok
          THEN /\ file' = r.inner
               /\ payload' = [payload EXCEPT !.manifest_size = from_be_bytes(r.bytes)]
               /\ status' = "metadata_signature_size"
          ELSE ParseFailed(r.inner)
    /\ UNCHANGED <<viewVars, img, env, part, opk, last, log>>

ParseMetadataSignatureSize ==
    /\ status = "metadata_signature_size"
    /\ IF metadata_signature_size_present(payload.file_format_version)
       THEN \E r \in {read_exact(file, 4)} :
               IF r.ok
               THEN /\ file' = r.inner
                    /\ payload' = [payload EXCEPT
                                      !.metadata_signature_size = from_be_bytes(r.bytes)]
                    /\ status' = "manifest"
               ELSE ParseFailed(r.inner)
       ELSE status' = "manifest" /\ UNCHANGED <<file, payload>>
    /\ UNCHANGED <<viewVars, img, env, part, opk, last, log>>

ParseManifest ==
    /\ status = "manifest"
    /\ \E r \in {read_exact(file, payload.manifest_size)} :
          \E m \in {decode(r.bytes, NoManifest)} :
             IF r.ok /\ m.ok
             THEN /\ file' = r.inner
                  /\ payload' = [payload EXCEPT !.manifest = m]
                  /\ status' = "metadata_signature_message"
             ELSE ParseFailed(r.inner)
    /\ UNCHANGED <<viewVars, img, env, part, opk, last, log>>

ParseMetadataSignatureMessage ==
    /\ status = "metadata_signature_message"
    /\ \E r \in {read_exact(file, payload.metadata_signature_size)} :
          IF r.ok
          THEN /\ file' = r.inner
               /\ payload' = [payload EXCEPT !.metadata_signature_message = r.bytes]
               /\ status' = "blobs_offset"
          ELSE ParseFailed(r.inner)
    /\ UNCHANGED <<viewVars, img, env, part, opk, last, log>>

\* #[br(parse_with = current_pos)]: reader.stream_position()
ParseBlobsOffset ==
    /\ status = "blobs_offset"
    /\ payload' = [payload EXCEPT !.blobs_offset = file.pos]
    /\ status' = "payload_signatures_message_data"
    /\ UNCHANGED <<viewVars, file, img, env, part, opk, last, log>>

\* seek_before = SeekFrom::Current(signatures_offset as i64), then count =
\* signatures_size bytes (offsets of 2^63 and above, which the cast turns
\* negative, are not modelled)
ParsePayloadSignatures ==
    /\ status = "payload_signatures_message_data"
    /\ IF payload_signatures_present(payload.manifest)
       THEN \E r \in {read_exact(stream_seek(file, file.pos + payload.manifest.signatures_offset),
                                 payload.manifest.signatures_size)} :
               IF r.ok
               THEN /\ file' = r.inner
                    /\ payload' = [payload EXCEPT !.payload_signatures_message_data = r.bytes]
                    /\ status' = "parsed"
               ELSE ParseFailed(r.inner)
       ELSE status' = "parsed" /\ UNCHANGED <<file, payload>>
    /\ UNCHANGED <<viewVars, img, env, part, opk, last, log>>

NextParse ==
    \/ ParseMagic
    \/ ParseFileFormatVersion
    \/ ParseManifestSize
    \/ ParseMetadataSignatureSize
    \/ ParseManifest
    \/ ParseMetadataSignatureMessage
    \/ ParseBlobsOffset
    \/ ParsePayloadSignatures

SpecParse == InitParse /\ [][NextParse]_vars

---------------------------------------------------------------------------
(* The logical-to-physical mapping the claims speak of *)

\* the fragment whose logical range [start_pos, start_pos + size) contains i
FragOf(f, i) ==
    CHOOSE k \in 1..Len(f.fragments) :
        /\ f.fragments[k].start_pos <= i
        /\ i < f.fragments[k].start_pos + f.fragments[k].size

\* the physical offset of logical byte i
PhysOf(f, i) ==
    f.fragments[FragOf(f, i)].offset + (i - f.fragments[FragOf(f, i)].start_pos)

\* the last of the logical bytes 0..n-1 that is mapped to the physical offset of i
LastAt(f, i, n) ==
    CHOOSE j \in i..(n - 1) :
        /\ PhysOf(f, j) = PhysOf(f, i)
        /\ \A j2 \in (j + 1)..(n - 1) : PhysOf(f, j2) # PhysOf(f, i)

WriteFromZero == call.op = "write" /\ ~call.hang /\ call.pre_pos = 0

\* C1: a write at logical 0 returns min(len(buf), total_size) and stores
\* logical byte i at physical offset fragments[k].offset + (i - start_pos[k]),
\* fragments taken in the caller's order; afterwards each of these physical
\* offsets holds the last logical byte stored there (byte i itself unless a
\* later byte of the same call is mapped to the same offset by an
\* overlapping fragment)
C1_WriteMapsFragments ==
    WriteFromZero =>
        /\ call.ret = Min(Len(call.buf), ff.size)
        /\ Len(call.phys) = call.ret
        /\ \A i \in 0..(call.ret - 1) :
              /\ call.phys[i + 1] = PhysOf(ff, i)
              /\ inner.data[PhysOf(ff, i) + 1] = call.buf[LastAt(ff, i, call.ret) + 1]

\* a clamped write that crossed into a fragment lying physically before the first
C1_Witness ==
    /\ WriteFromZero
    /\ Len(ff.fragments) = 2
    /\ ff.fragments[1].offset > ff.fragments[2].offset
    /\ ff.fragments[1].size > 0
    /\ ff.fragments[2].size > 0
    /\ Len(call.buf) > ff.size
    /\ call.ret = ff.size

\* C2: without seeks, the counts returned by reads and writes add up to the
\* logical position, never exceed total_size, equal total_size once
\* end-of-file is reached, and a call issued at total_size returns 0
C2_SumToEof ==
    (ff # NoFile /\ ~seeked /\ ~call.hang) =>
        /\ transferred = pos(ff)
        /\ transferred <= ff.size
        /\ eof(ff) => transferred = ff.size
        /\ call.op \in {"read", "write"} =>
              /\ pos(ff) = call.pre_pos + call.ret
              /\ call.ret = Min(call.n, ff.size - call.pre_pos)
              /\ call.pre_pos = ff.size => call.ret = 0

\* a call with a non-empty buffer issued after end-of-file was reached, on a
\* non-empty file that has a zero-size fragment
C2_Witness ==
    /\ ff # NoFile /\ ~seeked /\ ~call.hang
    /\ call.op \in {"read", "write"}
    /\ ncalls >= 2
    /\ call.n > 0
    /\ call.pre_pos = ff.size
    /\ call.ret = 0
    /\ ff.size > 0
    /\ \E k \in 1..Len(ff.fragments) : ff.fragments[k].size = 0

SeekInRange == call.op = "seek" /\ call.target < ff.size

AfterSeekInRange ==
    /\ call.op \in {"read", "write"}
    /\ call.after_seek
    /\ ~call.hang
    /\ call.pre_pos < ff.size

\* the first byte of the transfer that follows a seek goes to / comes from
\* the physical offset of the position seeked to
FirstByteAtTarget ==
    AfterSeekInRange /\ call.n > 0 =>
        /\ call.ret > 0
        /\ call.phys[1] = PhysOf(ff, call.pre_pos)
        /\ call.op = "read" => call.buf[1] = call.pre[PhysOf(ff, call.pre_pos) + 1]

\* C3 as stated: every seek to p < total_size, however p is given, returns p
\* and leaves index, fragment_pos and the backing stream at the fragment
\* containing p
C3_AsStated ==
    /\ SeekInRange =>
          /\ call.ret = call.target
          /\ ff.index + 1 = FragOf(ff, call.target)
          /\ ff.fragment_pos = call.target - ff.fragments[ff.index + 1].start_pos
          /\ inner.pos = PhysOf(ff, call.target)
    /\ FirstByteAtTarget

\* C3 (amended): a seek to p < total_size returns p and the next read or
\* write transfers its first byte at the physical offset of p; unless the
\* seek is the no-op SeekFrom::Current(0), it leaves the file in the fragment
\* k containing p, at offset p - start_pos[k], with the backing stream at
\* fragments[k].offset + (p - start_pos[k])
C3_SeekLandsInFragment ==
    /\ SeekInRange =>
          /\ call.ret = call.target
          /\ pos(ff) = call.target
          /\ ~call.noop =>
                /\ ff.index + 1 = FragOf(ff, call.target)
                /\ ff.fragment_pos = call.target - ff.fragments[ff.index + 1].start_pos
                /\ inner.pos = PhysOf(ff, call.target)
    /\ FirstByteAtTarget

\* a seek from end-of-file into the second of two fragments that share
\* start_pos 0 with a zero-size first fragment
C3_Witness ==
    /\ SeekInRange
    /\ ~call.noop
    /\ call.pre_pos = ff.size
    /\ Len(ff.fragments) = 2
    /\ ff.fragments[1].size = 0
    /\ ff.index = 1
    /\ ff.fragment_pos > 0


InWindow(q) == sf.offset <= q /\ q < sf.offset + sf.length

SectTransfer == sf # NoFile /\ call.op \in {"read", "write"} /\ ~call.panic

\* C4: a SectionFile read or write, after any sequence of seek, read and
\* write calls, touches only backing bytes inside [offset, offset + length),
\* transfers at most length - pos bytes (none when pos is past length), and
\* a read at pos = length returns 0
C4_NeverOutsideWindow ==
    SectTransfer =>
        /\ \A i \in 1..Len(call.phys) : InWindow(call.phys[i])
        /\ call.ret <= Max(0, sf.length - call.pre_pos)
        /\ (call.op = "read" /\ call.pre_pos = sf.length) => call.ret = 0

\* after a seek past the end of the section, a read built without overflow
\* checks returns a byte that lies outside the window
C4_Witness ==
    /\ SectTransfer
    /\ call.op = "read"
    /\ ~overflow_checks
    /\ call.pre_pos > sf.length
    /\ call.ret > 0
    /\ \E i \in 1..Len(call.phys) : ~InWindow(call.phys[i])


---------------------------------------------------------------------------
(* dump_operation and main: the call that has just returned is last *)

Returned == last.result # "none"

HasData == last.operation.data_offset # None /\ last.operation.data_length # None

HasDst == last.operation.dst_extents # <<>>

NoFault == env.src_seek_ok /\ env.dst_seek_ok

\* the byte ranges of dst_extents: [start_block * block_size,
\* (start_block + num_blocks) * block_size), in manifest order
DstRanges ==
    [k \in 1..Len(last.operation.dst_extents) |->
        [offset |-> last.operation.dst_extents[k].start_block * payload.block_size,
         size   |-> last.operation.dst_extents[k].num_blocks * payload.block_size]]

\* the logical-to-physical mapping of dst_extents
DstMap ==
    [size      |-> SumSizes(DstRanges, Len(DstRanges)),
     fragments |-> [k \in 1..Len(DstRanges) |->
                       [offset    |-> DstRanges[k].offset,
                        size      |-> DstRanges[k].size,
                        start_pos |-> SumSizes(DstRanges, k - 1)]]]

\* aggregate size of dst_extents
Capacity == DstMap.size

\* the bytes of the data blob the input holds
BlobAvailable ==
    Min(last.operation.data_length,
        Max(0, Len(file.data) - (payload.blobs_offset + last.operation.data_offset)))

\* input byte at blobs_offset + data_offset + i
SourceByte(i) == file.data[payload.blobs_offset + last.operation.data_offset + i + 1]

\* a Replace whose blob has exactly Capacity bytes, with no I/O fault
ExactReplace ==
    /\ Returned
    /\ last.operation.type = "Replace"
    /\ NoFault
    /\ HasData
    /\ last.operation.data_length = Capacity
    /\ BlobAvailable = last.operation.data_length

\* C5 as stated: a Replace whose blob has exactly N bytes and whose
\* dst_extents have aggregate size N succeeds, and the output holds source
\* byte i at the physical offset of logical position i, for every i < N
C5_AsStated ==
    ExactReplace =>
        /\ last.result = "Ok"
        /\ \A i \in 0..(Capacity - 1) :
              /\ PhysOf(DstMap, i) < Len(img.data)
              /\ img.data[PhysOf(DstMap, i) + 1] = SourceByte(i)

\* C5 (amended): a Replace with non-empty dst_extents of aggregate size N
\* whose blob has exactly N bytes succeeds, and every physical offset that a
\* logical position i < N maps to holds the source byte of the last logical
\* position mapped to it (source byte i itself unless dst_extents overlap)
C5_ReplaceExact ==
    (ExactReplace /\ HasDst) =>
        /\ last.result = "Ok"
        /\ \A i \in 0..(Capacity - 1) :
              /\ PhysOf(DstMap, i) < Len(img.data)
              /\ img.data[PhysOf(DstMap, i) + 1] = SourceByte(LastAt(DstMap, i, Capacity))

\* a successful Replace over two extents, the second lying before the first
C5_Witness ==
    /\ ExactReplace
    /\ last.result = "Ok"
    /\ Len(DstRanges) = 2
    /\ DstRanges[1].size > 0
    /\ DstRanges[2].size > 0
    /\ DstRanges[2].offset + DstRanges[2].size <= DstRanges[1].offset

\* a Replace with both views resolved whose transfer differs from the
\* declared data_length or from the capacity of dst_extents
CapacityMismatch ==
    /\ Returned
    /\ last.operation.type = "Replace"
    /\ NoFault
    /\ HasData
    /\ HasDst
    /\ \/ BlobAvailable # last.operation.data_length
       \/ last.operation.data_length # Capacity

\* C6: a Replace that transfers a number of bytes different from data_length
\* or from the capacity of the destination returns an error value; it never
\* aborts the process
C6_MismatchIsReturned ==
    CapacityMismatch => last.result = "Err"

\* the source is shorter than the destination and the process aborts
C6_Witness ==
    /\ CapacityMismatch
    /\ BlobAvailable = last.operation.data_length
    /\ last.operation.data_length < Capacity
    /\ last.result = "Panic"
    /\ status = "panic"

\* C7: dump_operation on a Move, SourceCopy, Bsdiff, SourceBsdiff,
\* BrotliBsdiff or Puffdiff operation returns an error value; it never
\* crashes the process
C7_UnsupportedIsReturned ==
    (Returned /\ last.operation.type \in Unsupported) => last.result = "Err"

\* an unsupported operation with data and dst_extents, no I/O fault, aborts
C7_Witness ==
    /\ Returned
    /\ last.operation.type \in Unsupported
    /\ NoFault /\ HasData /\ HasDst
    /\ last.result = "Panic"
    /\ last.err = "not yet implemented"

\* C8: a Zero operation with non-empty dst_extents of aggregate size N
\* succeeds (the output accepting the seek to the first extent), with or
\* without data_offset / data_length, and afterwards each of the N output
\* bytes addressed by dst_extents is 0
C8_ZeroFills ==
    (Returned /\ last.operation.type = "Zero" /\ HasDst /\ env.dst_seek_ok) =>
        /\ last.result = "Ok"
        /\ \A i \in 0..(Capacity - 1) :
              /\ PhysOf(DstMap, i) < Len(img.data)
              /\ img.data[PhysOf(DstMap, i) + 1] = 0

\* a Zero operation without data over bytes that an earlier operation of the
\* partition had set to non-zero values
C8_Witness ==
    /\ Returned
    /\ last.operation.type = "Zero"
    /\ ~HasData
    /\ last.result = "Ok"
    /\ Capacity > 0
    /\ \A i \in 0..(Capacity - 1) :
          /\ PhysOf(DstMap, i) < Len(last.before)
          /\ last.before[PhysOf(DstMap, i) + 1] # 0

\* C9: the operations run one at a time in manifest order (log holds
\* <<partition, index, result>> of each call in the order of execution):
\* each call but the last returned success, a call follows its predecessor
\* in the same partition or opens a later one, and once a call returns an
\* error the run ends with that error, no further call being made
C9_InOrderUntilError ==
    /\ \A j \in 1..Len(log) :
          /\ j < Len(log) => log[j][3] = "Ok"
          /\ j = 1 => log[j][2] = 1
          /\ j > 1 => \/ log[j][1] = log[j - 1][1] /\ log[j][2] = log[j - 1][2] + 1
                      \/ log[j][1] > log[j - 1][1] /\ log[j][2] = 1
    /\ (log # <<>> /\ log[Len(log)][3] = "Err") => status = "err"
    /\ (log # <<>> /\ log[Len(log)][3] = "Panic") => status = "panic"
    /\ status \in {"running", "done"} => \A j \in 1..Len(log) : log[j][3] = "Ok"
    /\ status # "running" => last = NoLast \/ last.result = log[Len(log)][3]

\* the second operation of the first partition returned an error: the run
\* ended with it, a later partition left untouched
C9_Witness ==
    /\ Len(log) = 2
    /\ log[1] = <<1, 1, "Ok">>
    /\ log[2] = <<1, 2, "Err">>
    /\ status = "err"
    /\ part + 1 < MaxPartitions

\* C10: a failure to resolve the view an operation does not use never makes
\* it fail: Zero succeeds without data_offset / data_length, and Discard
\* succeeds without data, with empty dst_extents, and when positioning the
\* output at the first destination extent fails
C10_UnusedViewIgnored ==
    /\ (Returned /\ last.operation.type = "Zero" /\ HasDst /\ env.dst_seek_ok) =>
          last.result = "Ok"
    /\ (Returned /\ last.operation.type = "Discard") => last.result = "Ok"

\* a Discard fails because the output refuses the seek to its first extent
C10_Witness ==
    /\ Returned
    /\ last.operation.type = "Discard"
    /\ HasDst
    /\ ~env.dst_seek_ok
    /\ last.result = "Err"
    /\ last.err = "seek"
    /\ status = "err"


NeedsData == last.operation.type \in {"Replace", "ReplaceBz", "ReplaceXz"}

NeedsDst == last.operation.type \in {"Replace", "ReplaceBz", "ReplaceXz", "Zero"}

\* the call returned the error err as a value and wrote no output byte
ReturnedError(err) ==
    /\ last.result = "Err"
    /\ last.err = err
    /\ img.data = last.before

\* C11 as stated: a Replace, ReplaceBz or ReplaceXz without data_offset or
\* data_length fails with "no data", a Replace, ReplaceBz, ReplaceXz or Zero
\* with empty dst_extents fails with "no dst extents"; the error is returned
\* as a value and no byte of the output has been written
C11_AsStated ==
    /\ (Returned /\ NeedsData /\ ~HasData) => ReturnedError("no data")
    /\ (Returned /\ NeedsDst /\ ~HasDst) => ReturnedError("no dst extents")

\* ReplaceXz resolves data before dst, the other kinds dst before data
DataErrorFirst ==
    last.operation.type = "ReplaceXz" /\ (~HasData \/ ~env.src_seek_ok)

\* C11 (amended): such an operation fails with an error returned as a value
\* and no byte of the output written.  With data absent and the output
\* positioned on non-empty dst_extents the error is "no data"; with empty
\* dst_extents it is "no dst extents", unless the kind is ReplaceXz and its
\* data is unresolved, which is reported first ("no data", or the seek error
\* of the input); with both absent Replace and ReplaceBz report
\* "no dst extents", ReplaceXz "no data"
C11_MissingViewIsReturned ==
    /\ (Returned /\ NeedsData /\ ~HasData /\ HasDst /\ env.dst_seek_ok) =>
          ReturnedError("no data")
    /\ (Returned /\ NeedsDst /\ ~HasDst) =>
          ReturnedError(IF ~DataErrorFirst THEN "no dst extents"
                        ELSE IF ~HasData THEN "no data" ELSE "seek")

\* a Replace without data_length, on an image that an earlier operation
\* filled, is refused after the output was positioned on its extents
C11_Witness ==
    /\ Returned
    /\ last.operation.type = "Replace"
    /\ last.operation.data_offset # None
    /\ last.operation.data_length = None
    /\ HasDst
    /\ Capacity > 0
    /\ last.before # <<>>
    /\ ReturnedError("no data")
    /\ status = "err"

---------------------------------------------------------------------------
(* Container parsing: status names the field read next *)

\* the unsigned big-endian integer in the w bytes of the file at offset q
FieldAt(q, w) == from_be_bytes(SubSeq(file.data, q + 1, q + w))

\* the fields up to metadata_signature_size have been read
SizesParsed ==
    status \in {"manifest", "metadata_signature_message", "blobs_offset",
                "payload_signatures_message_data", "parsed"}

\* the fields up to metadata_signature_message have been read
SignatureParsed ==
    status \in {"blobs_offset", "payload_signatures_message_data", "parsed"}

\* length of the header in front of the manifest
HeaderLen == IF FieldAt(4, 8) >= 2 THEN 24 ELSE 20

\* C12: the 4-byte metadata_signature_size is read only when
\* file_format_version >= 2: for version 1 it is not consumed, it is 0, the
\* manifest starts right after manifest_size and metadata_signature_message
\* is empty; for version >= 2 it is read and exactly that many bytes are
\* consumed after the manifest.  A stream that does not start with "CrAU"
\* is rejected
C12_VersionGatesSignatureSize ==
    /\ SizesParsed =>
          /\ payload.file_format_version = FieldAt(4, 8)
          /\ payload.manifest_size = FieldAt(12, 8)
          /\ FieldAt(4, 8) < 2 =>
                /\ payload.metadata_signature_size = 0
                /\ status = "manifest" => file.pos = 20
          /\ FieldAt(4, 8) >= 2 =>
                /\ payload.metadata_signature_size = FieldAt(20, 4)
                /\ status = "manifest" => file.pos = 24
    /\ SignatureParsed =>
          /\ payload.metadata_signature_message =
                SubSeq(file.data, HeaderLen + payload.manifest_size + 1,
                       HeaderLen + payload.manifest_size + payload.metadata_signature_size)
          /\ Len(payload.metadata_signature_message) = payload.metadata_signature_size
          /\ FieldAt(4, 8) < 2 => payload.metadata_signature_message = <<>>
          /\ status = "blobs_offset" =>
                file.pos = HeaderLen + payload.manifest_size + payload.metadata_signature_size
    /\ SubSeq(file.data, 1, 4) # MAGIC =>
          /\ status \in {"magic", "err"}
          /\ payload = NoPayload

\* a version 1 payload with a non-empty manifest has been parsed
C12_Witness ==
    /\ status = "parsed"
    /\ payload.file_format_version = 1
    /\ payload.manifest_size > 0
    /\ payload.manifest.signatures_size # None
    /\ payload.metadata_signature_size = 0

\* C13: blobs_offset is the stream position right after the metadata
\* signature, 20 + (4 if version >= 2) + manifest_size +
\* metadata_signature_size, and keeps that value; the payload signature is
\* read only if the manifest has signatures_offset and signatures_size, from
\* position blobs_offset + signatures_offset, as the last field parsed
C13_BlobsOffsetAfterSignature ==
    /\ status \in {"payload_signatures_message_data", "parsed"} =>
          payload.blobs_offset =
             20 + (IF payload.file_format_version >= 2 THEN 4 ELSE 0)
                + payload.manifest_size + payload.metadata_signature_size
    /\ status = "payload_signatures_message_data" => file.pos = payload.blobs_offset
    /\ status # "parsed" => payload.payload_signatures_message_data = <<>>
    /\ status = "parsed" =>
          IF payload.manifest.signatures_offset # None /\ payload.manifest.signatures_size # None
          THEN /\ payload.payload_signatures_message_data =
                     SubSeq(file.data,
                            payload.blobs_offset + payload.manifest.signatures_offset + 1,
                            payload.blobs_offset + payload.manifest.signatures_offset
                               + payload.manifest.signatures_size)
               /\ file.pos = payload.blobs_offset + payload.manifest.signatures_offset
                                + payload.manifest.signatures_size
          ELSE /\ payload.payload_signatures_message_data = <<>>
               /\ file.pos = payload.blobs_offset

\* a version 2 payload with a metadata signature whose payload signature was
\* read from a non-zero signatures_offset
C13_Witness ==
    /\ status = "parsed"
    /\ payload.file_format_version >= 2
    /\ payload.metadata_signature_size > 0
    /\ payload.manifest.signatures_offset # None
    /\ payload.manifest.signatures_offset > 0
    /\ payload.payload_signatures_message_data # <<>>
    /\ file.pos > payload.blobs_offset

RECURSIVE TotalSize(_)
\* total of the sizes of a fragment list
TotalSize(fragments) ==
    IF fragments = <<>> THEN 0 ELSE Head(fragments).size + TotalSize(Tail(fragments))

\* C14: FragmentFile::new with an empty fragment list fails with InvalidInput
\* and leaves the backing stream where it was; with a non-empty list it
\* succeeds when the seek succeeds, leaves the stream at fragments[0].offset,
\* size is the sum of the sizes and start_pos of each fragment is the sum of
\* the sizes of the fragments before it
C14_NewChecksAndPositions ==
    call.op = "new" =>
       /\ inner.data = call.pre
       /\ call.fragments = <<>> =>
             /\ ~call.ok
             /\ call.err = "InvalidInput"
             /\ ff = NoFile
             /\ inner.pos = call.pre_pos
       /\ call.fragments # <<>> =>
             /\ call.ok = call.seek_ok
             /\ ~call.ok => ff = NoFile /\ call.err = "seek"
             /\ call.ok =>
                   /\ ff # NoFile
                   /\ inner.pos = call.fragments[1].offset
                   /\ ff.index = 0 /\ ff.fragment_pos = 0
                   /\ ff.size = TotalSize(call.fragments)
                   /\ Len(ff.fragments) = Len(call.fragments)
                   /\ \A k \in 1..Len(call.fragments) :
                         /\ ff.fragments[k].offset = call.fragments[k].offset
                         /\ ff.fragments[k].size = call.fragments[k].size
                         /\ ff.fragments[k].start_pos =
                               TotalSize(SubSeq(call.fragments, 1, k - 1))

\* an empty list refused with the stream left at a non-zero position
C14_Witness ==
    /\ call.op = "new"
    /\ call.fragments = <<>>
    /\ call.err = "InvalidInput"
    /\ call.pre_pos > 0
    /\ inner.pos = call.pre_pos

\* a read that returned
ReadReturned == call.op = "read" /\ ~call.hang

\* C15: a read at logical position p with a buffer of n bytes returns exactly
\* min(n, total_size - p), also across fragment boundaries and over a backing
\* stream that hands out fewer bytes than asked for, and the bytes delivered
\* are those of logical positions p, p + 1, ... in that order
C15_ReadFillsUntilEof ==
    ReadReturned =>
        /\ call.ret = Min(call.n, ff.size - call.pre_pos)
        /\ Len(call.buf) = call.ret
        /\ Len(call.phys) = call.ret
        /\ \A i \in 0..(call.ret - 1) :
              /\ call.phys[i + 1] = PhysOf(ff, call.pre_pos + i)
              /\ PhysOf(ff, call.pre_pos + i) < Len(call.pre)
              /\ call.buf[i + 1] = call.pre[PhysOf(ff, call.pre_pos + i) + 1]

\* a full buffer read across a fragment boundary from a backing stream that
\* hands out one byte a call
C15_Witness ==
    /\ ReadReturned
    /\ "chunk" \in DOMAIN inner
    /\ inner.chunk = 1
    /\ call.n = 3
    /\ call.ret = 3
    /\ FragOf(ff, call.pre_pos) # FragOf(ff, call.pre_pos + 2)

\* the step is a seek by SeekFrom::Current(0)
NoopSeek == call'.op = "seek" /\ call'.noop

\* C17: a seek by SeekFrom::Current(0) returns the current logical position,
\* total_size at end-of-file, and leaves index, fragment_pos and the backing
\* stream as they were
C17_NoopSeekTouchesNothing ==
    [][NoopSeek =>
          /\ call'.ret = pos(ff)
          /\ eof(ff) => call'.ret = ff.size
          /\ ff'.index = ff.index
          /\ ff'.fragment_pos = ff.fragment_pos
          /\ ff' = ff
          /\ inner' = inner]_vars

\* SeekFrom::Current(0) at end-of-file of a non-empty file
C17_Witness ==
    /\ call.op = "seek"
    /\ call.noop
    /\ eof(ff)
    /\ ff.size > 0
    /\ call.ret = ff.size

\* C18: every read and write call returns, also when the backing stream
\* transfers 0 bytes while the current fragment has bytes remaining
C18_CallsTerminate ==
    call.op \in {"read", "write"} => ~call.hang

\* a read that loops for ever: the backing stream is at its end and returns 0
\* while the current fragment has bytes remaining
C18_Witness ==
    /\ call.op = "read"
    /\ call.hang
    /\ call.n > 0
    /\ ~eof(ff)
    /\ fragment_remaining(ff) > 0
    /\ inner.pos >= Len(inner.data)

\* C19: in every state after a successful construction, reached by reads,
\* writes and seeks to positions in 0..total_size: index is at most the
\* number of fragments; before end-of-file fragment_pos is at most the size
\* of the current fragment and the backing stream is at its offset +
\* fragment_pos; the logical position is in 0..total_size and each read or
\* write that returns moves it by the count returned
C19_PositionInvariant ==
    ff # NoFile =>
        /\ ff.index >= 0
        /\ ff.index <= Len(ff.fragments)
        /\ ff.index < Len(ff.fragments) =>
              /\ ff.fragment_pos >= 0
              /\ ff.fragment_pos <= ff.fragments[ff.index + 1].size
              /\ inner.pos = ff.fragments[ff.index + 1].offset + ff.fragment_pos
        /\ pos(ff) >= 0
        /\ pos(ff) <= ff.size
        /\ (call.op \in {"read", "write"} /\ ~call.hang) =>
              pos(ff) = call.pre_pos + call.ret

\* a transfer that followed a seek and stopped inside the second fragment
C19_Witness ==
    /\ ff # NoFile
    /\ call.op \in {"read", "write"}
    /\ ~call.hang
    /\ call.after_seek
    /\ call.pre_pos > 0
    /\ call.ret > 0
    /\ ff.index = 1
    /\ ff.fragment_pos = 1
    /\ ff.fragments[2].size = 2

\* a ReplaceBz or ReplaceXz whose decoder ran
Decoded ==
    /\ Returned
    /\ last.operation.type \in {"ReplaceBz", "ReplaceXz"}
    /\ HasData /\ HasDst /\ NoFault

InDstRanges(q) ==
    \E k \in 1..Len(DstRanges) :
        /\ DstRanges[k].offset <= q
        /\ q < DstRanges[k].offset + DstRanges[k].size

\* C20: dump_operation changes output bytes only inside the byte ranges
\* [start_block * block_size, (start_block + num_blocks) * block_size) of
\* dst_extents: after any operation, successful or failed, every output byte
\* outside them has its previous value (a byte between the old end of the
\* output and a range written beyond it, which had no previous value, is 0),
\* and a Discard changes no output byte
C20_OnlyDstRangesChange ==
    Returned =>
        /\ Len(img.data) >= Len(last.before)
        /\ \A q \in 0..(Len(last.before) - 1) :
              ~InDstRanges(q) => img.data[q + 1] = last.before[q + 1]
        /\ \A q \in Len(last.before)..(Len(img.data) - 1) :
              ~InDstRanges(q) => img.data[q + 1] = 0
        /\ last.operation.type = "Discard" => img.data = last.before

\* a failed operation that wrote into its ranges next to a non-zero byte
\* written earlier that is outside them
C20_Witness ==
    /\ Returned
    /\ NeedsDst
    /\ last.result # "Ok"
    /\ img.data # last.before
    /\ \E q \in 0..(Len(last.before) - 1) : ~InDstRanges(q) /\ last.before[q + 1] # 0

\* the outcome and the output of the call that has just returned are those
\* of the same call made with the input cursor at p and the output cursor at q
SameFrom(p, q) ==
    \A r \in {dump_operation([data |-> file.data, pos |-> p], payload.blobs_offset,
                             [data |-> last.before, pos |-> q], last.operation,
                             payload.block_size, env, last.decoded, last.corrupt)} :
        /\ r.result = last.result
        /\ r.err = last.err
        /\ r.dst.data = img.data

\* C21: the outcome of dump_operation and the contents of the output after
\* it depend on the operation, block_size, blobs_offset and the contents of
\* the input and the output, not on where the two cursors were before the
\* call: the call made from the cursors the run had reached gives what it
\* gives from the start and from the end of both streams
C21_CursorsDoNotMatter ==
    Returned =>
        /\ SameFrom(0, 0)
        /\ SameFrom(Len(file.data), Len(last.before))
        /\ SameFrom(0, Len(last.before))
        /\ SameFrom(Len(file.data), 0)

\* a Replace that succeeded and changed the output, called with both cursors
\* where an earlier operation had left them, away from the start
C21_Witness ==
    /\ Returned
    /\ last.operation.type = "Replace"
    /\ last.result = "Ok"
    /\ img.data # last.before
    /\ last.src_pos > payload.blobs_offset
    /\ last.dst_pos > 0
    /\ last.src_pos # payload.blobs_offset + last.operation.data_offset
    /\ last.dst_pos # DstRanges[1].offset

===========================================================================
